---- MODULE Spec2Model ----
(***************************************************************************)
(* A model of the anycable-client core:                                    *)
(*   - ActionCableProtocol (packages/core/action_cable/index.js): the      *)
(*     pending-subscription table, subscribe / unsubscribe / perform /     *)
(*     receive / reset;                                                    *)
(*   - the token-refresh workflow of createCable                           *)
(*     (packages/core/create-cable/index.js): watchForExpiredToken and the *)
(*     async refresh callback.                                             *)
(* JavaScript values are modelled as strings; the value undefined, the     *)
(* booleans and the prototype of a plain object are reserved markers.      *)
(***************************************************************************)
EXTENDS Naturals, Sequences, FiniteSets, TLC

\* ------------------------------------------------------------------ bounds

\* how many subscribe() calls a behaviour issues
MaxCalls == 2
\* how many 'close' events the cable emits in a behaviour
MaxCloses == 3
MaxEvents == 2

\* ------------------------------------------------------- JavaScript values

Undefined == "<undefined>"
JsTrue == "<true>"
JsFalse == "<false>"

\* ToBoolean of the values the model uses: undefined, false and '' are falsy
Truthy(v) == v \notin {Undefined, JsFalse, ""}

\* ToPropertyKey: obj[undefined] reads the property named 'undefined'
ToPropertyKey(v) == IF v = Undefined THEN "undefined" ELSE v

\* property names every plain object ({}) inherits from Object.prototype
ObjectPrototypeKeys == {"constructor", "toString", "__proto__"}

\* the errors of ../protocol/index.js, as {name, reason}
NoError == [name |-> "none", reason |-> Undefined]
SubscriptionRejectedError == [name |-> "SubscriptionRejectedError", reason |-> Undefined]
DisconnectedError(reason) == [name |-> "DisconnectedError", reason |-> reason]
TypeError == [name |-> "TypeError", reason |-> Undefined]

\* ------------------------------------------------------------- JSON.stringify

\* An object is the sequence of its own <<key, value>> members in insertion
\* order; JSON.stringify writes them in that order.
RECURSIVE StringifyMembers(_)
StringifyMembers(members) ==
    IF members = <<>> THEN ""
    ELSE LET m == Head(members)
             one == "\"" \o m[1] \o "\":\"" \o m[2] \o "\""
         IN IF Len(members) = 1 THEN one
            ELSE one \o "," \o StringifyMembers(Tail(members))

Stringify(members) == "{" \o StringifyMembers(members) \o "}"

HasKey(members, k) == \E i \in 1..Len(members) : members[i][1] = k

\* obj[k] = v: an existing member keeps its place, a new one is appended
SetMember(members, k, v) ==
    IF HasKey(members, k)
    THEN [i \in 1..Len(members) |->
            IF members[i][1] = k THEN <<k, v>> ELSE members[i]]
    ELSE Append(members, <<k, v>>)

\* Object.assign(target, source)
RECURSIVE ObjectAssign(_, _)
ObjectAssign(target, source) ==
    IF source = <<>> THEN target
    ELSE ObjectAssign(SetMember(target, Head(source)[1], Head(source)[2]),
                      Tail(source))

\* ------------------------------------------------------------------ state

VARIABLES
    pendingSubscriptions, \* ActionCableProtocol.pendingSubscriptions: identifier -> subscribe call
    calls,                \* the promise each subscribe() call returned, in call order
    cableLog,             \* the calls the last operation made on this.cable, in order
    loggerLog,            \* the calls the last operation made on this.logger, in order
    last,                 \* the last operation run and its arguments
    result,               \* what the last operation returned or threw
    hasRefresher,         \* createCable: opts.tokenRefresher was given
    listeners,            \* the 'close' listeners watchForExpiredToken has bound and not unbound
    flows,                \* every run of the close listener's token_expired branch, in start order
    closeLog,             \* the 'close' events the cable has emitted, in order
    creation,             \* the createCable call made, and how it ended
    cableChannel,         \* the ActionCableChannel that subscriptions.create built
    trace                 \* the channel's events, hook calls and cable.subscribe, in order

protocolVars == <<pendingSubscriptions, calls, cableLog, loggerLog, last, result>>
refreshVars == <<hasRefresher, listeners, flows, closeLog>>
adapterVars == <<creation, cableChannel, trace>>
vars == <<pendingSubscriptions, calls, cableLog, loggerLog, last, result,
          hasRefresher, listeners, flows, closeLog, creation, cableChannel,
          trace>>

\* --------------------------------------------------------------- the inputs

Channels == {"a"}

\* the params argument of subscribe: absent, or an object
NoParams == [given |-> FALSE, members |-> <<>>]
ParamsChoices == {NoParams, [given |-> TRUE, members |-> << <<"id", "1">> >>]}

NoFrame == [kind |-> "none", type |-> Undefined, identifier |-> Undefined,
            message |-> Undefined, reason |-> Undefined, reconnect |-> Undefined]

ObjectFrame(type, identifier, message, reason, reconnect) ==
    [kind |-> "object", type |-> type, identifier |-> identifier,
     message |-> message, reason |-> reason, reconnect |-> reconnect]

\* a decoded value that is not an object, or is null
ValueFrame(kind) == [NoFrame EXCEPT !.kind = kind]

\* the identifiers a server frame may carry: those subscribe derives, one no
\* subscribe derives, a name of Object.prototype, and none at all
SubscribeIdentifiers ==
    {Stringify(ObjectAssign(<< <<"channel", c>> >>, p.members)) :
        c \in Channels, p \in ParamsChoices}
InboundIdentifiers ==
    SubscribeIdentifiers \cup {"{\"channel\":\"zz\"}", "constructor", Undefined}

Messages == {Undefined, "", "hello"}

Frames ==
    {ValueFrame(k) : k \in {"string", "null"}}
    \cup {ObjectFrame("ping", Undefined, m, Undefined, Undefined) :
            m \in {"1604"}}
    \cup {ObjectFrame("welcome", Undefined, Undefined, Undefined, Undefined)}
    \cup {ObjectFrame("disconnect", Undefined, Undefined, r, rc) :
            r \in {"unauthorized"}, rc \in {Undefined, JsTrue, JsFalse}}
    \cup {ObjectFrame(t, i, Undefined, Undefined, Undefined) :
            t \in {"confirm_subscription", "reject_subscription"},
            i \in InboundIdentifiers}
    \cup {ObjectFrame(t, i, m, Undefined, Undefined) :
            t \in {Undefined, "custom"},
            i \in {"{\"channel\":\"a\"}"},
            m \in Messages}

\* the err argument of reset
ResetErrors == {DisconnectedError("transport_closed")}

\* --------------------------------------------------- what an operation leaves

NoCommand == [command |-> Undefined, identifier |-> Undefined, data |-> Undefined]

\* One call on this.cable: the method, its argument, and what the cable finds
\* in the protocol at the moment it is called (the keys of the pending table,
\* the subscribe calls still unsettled).
CableCall(method, arg, err, cmd, table, cs) ==
    [method |-> method, arg |-> arg, err |-> err, cmd |-> cmd,
     pending |-> DOMAIN table,
     unsettled |-> {i \in DOMAIN cs : cs[i].state = "pending"}]

LoggerCall(level, text) == [level |-> level, text |-> text]

ReturnedUndefined ==
    [threw |-> FALSE, error |-> NoError, routed |-> FALSE,
     identifier |-> Undefined, message |-> Undefined, promise |-> "none"]
ReturnedPromise(state) == [ReturnedUndefined EXCEPT !.promise = state]
ReturnedEvent(identifier, message) ==
    [ReturnedUndefined EXCEPT !.routed = TRUE, !.identifier = identifier,
                              !.message = message]
Threw(err) == [ReturnedUndefined EXCEPT !.threw = TRUE, !.error = err]

LastOp(op, frame, identifier, err) ==
    [op |-> op, frame |-> frame, identifier |-> identifier, error |-> err]

\* ------------------------------------------------------------ the promises

NewPromise(channel, params, identifier) ==
    [channel |-> channel, params |-> params, identifier |-> identifier,
     state |-> "pending", value |-> Undefined, error |-> NoError]

\* resolve / reject of the promise of call i: a settled promise stays as it is
Settle(cs, i, state, value, err) ==
    IF cs[i].state = "pending"
    THEN [cs EXCEPT ![i] = [@ EXCEPT !.state = state, !.value = value, !.error = err]]
    ELSE cs

\* ------------------------------------------------------------- the table

EmptyTable == [k \in {} |-> 0]

\* this.pendingSubscriptions[identifier] = { resolve, reject } of call i
PutPending(table, identifier, i) ==
    [k \in DOMAIN table \cup {identifier} |->
        IF k = identifier THEN i ELSE table[k]]

\* a lookup that forgets the key: whatever was registered last
LookupPendingLatest(table, identifier) ==
    IF DOMAIN table = {} THEN [found |-> "none", call |-> 0]
    ELSE [found |-> "own",
          call |-> CHOOSE i \in {table[k] : k \in DOMAIN table} :
                      \A k \in DOMAIN table : table[k] <= i]

\* this.pendingSubscriptions[identifier]: an own entry, else what a plain
\* object inherits (truthy, with no resolve or reject), else undefined
LookupPending(table, identifier) ==
    LET k == ToPropertyKey(identifier)
    IN IF k \in DOMAIN table THEN [found |-> "own", call |-> table[k]]
       ELSE IF k \in ObjectPrototypeKeys THEN [found |-> "inherited", call |-> 0]
       ELSE [found |-> "none", call |-> 0]

\* the loop of reset: reject(err) on every entry of the table
RejectEntries(cs, table, err) ==
    [i \in DOMAIN cs |->
        IF (\E k \in DOMAIN table : table[k] = i) /\ cs[i].state = "pending"
        THEN [cs[i] EXCEPT !.state = "rejected", !.error = err]
        ELSE cs[i]]

\* the table reset leaves
TableAfterReset(table) == EmptyTable

\* ------------------------------------------------------------- operations

\* the identifier subscribe derives from (channel, params)
SubscriptionIdentifier(channel, params) ==
    Stringify(IF params.given
              THEN ObjectAssign(<< <<"channel", channel>> >>, params.members)
              ELSE << <<"channel", channel>> >>)

Subscribe(channel, params) ==
    /\ Len(calls) < MaxCalls
    /\ LET identifier == SubscriptionIdentifier(channel, params)
           cs == Append(calls, NewPromise(channel, params, identifier))
           table == PutPending(pendingSubscriptions, identifier, Len(cs))
       IN /\ calls' = cs
          /\ pendingSubscriptions' = table
          /\ cableLog' = << CableCall("send", Undefined, NoError,
                              [command |-> "subscribe", identifier |-> identifier,
                               data |-> Undefined], table, cs) >>
          /\ loggerLog' = <<>>
          /\ last' = LastOp("subscribe", NoFrame, identifier, NoError)
          /\ result' = ReturnedPromise("pending")
    /\ UNCHANGED <<refreshVars, adapterVars>>

Reset(err) ==
    /\ calls' = RejectEntries(calls, pendingSubscriptions, err)
    /\ pendingSubscriptions' = TableAfterReset(pendingSubscriptions)
    /\ cableLog' = <<>>
    /\ loggerLog' = <<>>
    /\ last' = LastOp("reset", NoFrame, Undefined, err)
    /\ result' = ReturnedUndefined
    /\ UNCHANGED <<refreshVars, adapterVars>>

\* an unsubscribe that also forgets the subscribe pending for the identifier
UnsubscribeDropsPending(identifier) ==
    /\ pendingSubscriptions' =
          [k \in DOMAIN pendingSubscriptions \ {identifier} |-> pendingSubscriptions[k]]
    /\ cableLog' = << CableCall("send", Undefined, NoError,
                        [command |-> "unsubscribe", identifier |-> identifier,
                         data |-> Undefined], pendingSubscriptions', calls) >>
    /\ loggerLog' = <<>>
    /\ last' = LastOp("unsubscribe", NoFrame, identifier, NoError)
    /\ result' = ReturnedPromise("resolved")
    /\ UNCHANGED calls
    /\ UNCHANGED <<refreshVars, adapterVars>>

Unsubscribe(identifier) ==
    /\ cableLog' = << CableCall("send", Undefined, NoError,
                        [command |-> "unsubscribe", identifier |-> identifier,
                         data |-> Undefined], pendingSubscriptions, calls) >>
    /\ loggerLog' = <<>>
    /\ last' = LastOp("unsubscribe", NoFrame, identifier, NoError)
    /\ result' = ReturnedPromise("resolved")
    /\ UNCHANGED <<pendingSubscriptions, calls>>
    /\ UNCHANGED <<refreshVars, adapterVars>>

\* the payload argument of perform: absent, or an object
PayloadChoices ==
    {NoParams,
     [given |-> TRUE, members |-> << <<"text", "hi">> >>],
     [given |-> TRUE, members |-> << <<"action", "other">>, <<"text", "hi">> >>]}

\* a perform that keeps an action the payload already has
PerformDataKeepingAction(action, payload) ==
    LET members == IF payload.given THEN payload.members ELSE <<>>
    IN Stringify(IF HasKey(members, "action") THEN members
                 ELSE SetMember(members, "action", action))

\* the data perform sends: the payload ({} when absent) with its action set
PerformData(action, payload) ==
    Stringify(SetMember(IF payload.given THEN payload.members ELSE <<>>,
                        "action", action))

Perform(identifier, action, payload) ==
    /\ cableLog' = << CableCall("send", Undefined, NoError,
                        [command |-> "message", identifier |-> identifier,
                         data |-> PerformData(action, payload)],
                        pendingSubscriptions, calls) >>
    /\ loggerLog' = <<>>
    /\ last' = LastOp("perform", NoFrame, identifier, NoError)
    /\ result' = ReturnedPromise("resolved")
    /\ UNCHANGED <<pendingSubscriptions, calls>>
    /\ UNCHANGED <<refreshVars, adapterVars>>

\* ------------------------------------------------------------------ receive

\* what receive leaves: the table, the promises, its calls on the cable and
\* on the logger, and what it returns or throws
Effect(table, cs, cable, logger, res) ==
    [table |-> table, calls |-> cs, cable |-> cable, logger |-> logger,
     result |-> res]

\* typeof msg !== 'object'
ReceiveUnsupported(msg, table, cs) ==
    Effect(table, cs, <<>>,
           << LoggerCall("error", "unsupported message format") >>,
           ReturnedUndefined)

\* let { type, ... } = msg, with msg null
ReceiveNull(msg, table, cs) ==
    Effect(table, cs, <<>>, <<>>, Threw(TypeError))

\* a ping handler that passes no timestamp on
ReceivePingWithoutMessage(msg, table, cs) ==
    Effect(table, cs,
           << CableCall("keepalive", Undefined, NoError, NoCommand, table, cs) >>,
           <<>>, ReturnedUndefined)

ReceivePing(msg, table, cs) ==
    Effect(table, cs,
           << CableCall("keepalive", msg.message, NoError, NoCommand, table, cs) >>,
           <<>>, ReturnedUndefined)

ReceiveWelcome(msg, table, cs) ==
    Effect(table, cs,
           << CableCall("connected", Undefined, NoError, NoCommand, table, cs) >>,
           <<>>, ReturnedUndefined)

\* the signal a disconnect frame sends to the cable
DisconnectSignal(reconnect) ==
    IF reconnect = JsFalse THEN "close" ELSE "disconnected"

ReceiveDisconnect(msg, table, cs) ==
    LET err == DisconnectedError(msg.reason)
        cs2 == RejectEntries(cs, table, err)
        table2 == TableAfterReset(table)
    IN Effect(table2, cs2,
              << CableCall(DisconnectSignal(msg.reconnect), Undefined, err,
                           NoCommand, table2, cs2) >>,
              <<>>, ReturnedUndefined)

\* the branch shared by confirm_subscription and reject_subscription: the
\* entry is looked up, and a found one is settled
ReceiveSettle(msg, table, cs, state, value, err) ==
    LET subscription == LookupPending(table, msg.identifier)
    IN CASE subscription.found = "none" ->
              Effect(table, cs, <<>>,
                     << LoggerCall("error", "subscription not found") >>,
                     ReturnedUndefined)
         [] subscription.found = "inherited" ->
              \* subscription.resolve / subscription.reject is not a function
              Effect(table, cs, <<>>, <<>>, Threw(TypeError))
         [] OTHER ->
              Effect(table, Settle(cs, subscription.call, state, value, err),
                     <<>>, <<>>, ReturnedUndefined)

ReceiveConfirm(msg, table, cs) ==
    ReceiveSettle(msg, table, cs, "resolved", msg.identifier, NoError)

ReceiveReject(msg, table, cs) ==
    ReceiveSettle(msg, table, cs, "rejected", Undefined, SubscriptionRejectedError)

ReceiveRouted(msg, table, cs) ==
    Effect(table, cs, <<>>, <<>>, ReturnedEvent(msg.identifier, msg.message))

ReceiveUnknown(msg, table, cs) ==
    Effect(table, cs, <<>>, << LoggerCall("warn", "unknown message type") >>,
           ReturnedUndefined)

ReceiveEffect(msg, table, cs) ==
    CASE msg.kind \notin {"object", "null"}  -> ReceiveUnsupported(msg, table, cs)
      [] msg.kind = "null"                   -> ReceiveNull(msg, table, cs)
      [] msg.type = "ping"                   -> ReceivePing(msg, table, cs)
      [] msg.type = "welcome"                -> ReceiveWelcome(msg, table, cs)
      [] msg.type = "disconnect"             -> ReceiveDisconnect(msg, table, cs)
      [] msg.type = "confirm_subscription"   -> ReceiveConfirm(msg, table, cs)
      [] msg.type = "reject_subscription"    -> ReceiveReject(msg, table, cs)
      [] Truthy(msg.message)                 -> ReceiveRouted(msg, table, cs)
      [] OTHER                               -> ReceiveUnknown(msg, table, cs)

Receive(msg) ==
    /\ LET eff == ReceiveEffect(msg, pendingSubscriptions, calls)
       IN /\ pendingSubscriptions' = eff.table
          /\ calls' = eff.calls
          /\ cableLog' = eff.cable
          /\ loggerLog' = eff.logger
          /\ result' = eff.result
    /\ last' = LastOp("receive", msg, msg.identifier, NoError)
    /\ UNCHANGED <<refreshVars, adapterVars>>

\* ----------------------------------------------------- the protocol's runs

\* new ActionCableProtocol(), attached to a cable, beside a cable nobody
\* has closed yet
InitProtocol ==
    /\ pendingSubscriptions = EmptyTable
    /\ calls = <<>>
    /\ cableLog = <<>>
    /\ loggerLog = <<>>
    /\ last = LastOp("new", NoFrame, Undefined, NoError)
    /\ result = ReturnedUndefined

InitRefreshIdle ==
    /\ hasRefresher = FALSE
    /\ listeners = 0
    /\ flows = <<>>
    /\ closeLog = <<>>

\* createCable not called yet
NoCreation == [called |-> FALSE]

\* subscriptions.create not called yet
NoChannel == [created |-> FALSE]

InitAdapterIdle ==
    /\ creation = NoCreation
    /\ cableChannel = NoChannel
    /\ trace = <<>>

Init == InitProtocol /\ InitRefreshIdle /\ InitAdapterIdle

Next ==
    \/ \E c \in Channels, p \in ParamsChoices : Subscribe(c, p)
    \/ \E i \in SubscribeIdentifiers : Unsubscribe(i)
    \/ \E i \in {"{\"channel\":\"a\"}"}, a \in {"speak"}, p \in PayloadChoices :
          Perform(i, a, p)
    \/ \E msg \in Frames : Receive(msg)
    \/ \E err \in ResetErrors : Reset(err)

Spec == Init /\ [][Next]_vars

\* ------------------------------------------------- claims on the protocol

IsReceive(op, types) ==
    /\ op.op = "receive"
    /\ op.frame.kind = "object"
    /\ op.frame.type \in types

\* no subscribe was issued for an identifier another subscribe was still
\* pending for: a call overtaken that way stays pending for good
PendingDistinct(cs) ==
    \A i, j \in DOMAIN cs :
        (i < j /\ cs[i].identifier = cs[j].identifier) => cs[i].state # "pending"

\* C1: with the pending subscribes on distinct identifiers, a
\* confirm_subscription frame for X resolves exactly the subscribe pending
\* for X, with value X, a reject_subscription frame for X rejects exactly
\* that one with a SubscriptionRejectedError, and every other subscribe is
\* left as it was.
C1_ReplySettlesExactlyItsSubscribe ==
    [][ (IsReceive(last', {"confirm_subscription", "reject_subscription"})
         /\ PendingDistinct(calls))
        => /\ DOMAIN calls' = DOMAIN calls
           /\ \A i \in DOMAIN calls :
                IF calls[i].state = "pending"
                   /\ calls[i].identifier = last'.frame.identifier
                THEN IF last'.frame.type = "confirm_subscription"
                     THEN /\ calls'[i].state = "resolved"
                          /\ calls'[i].value = last'.frame.identifier
                     ELSE /\ calls'[i].state = "rejected"
                          /\ calls'[i].error = SubscriptionRejectedError
                ELSE calls'[i] = calls[i] ]_vars

\* C1's case: a confirm for X has resolved the subscribe for X while a
\* subscribe for another identifier is still pending
C1_Witness ==
    /\ IsReceive(last, {"confirm_subscription"})
    /\ \E i, j \in DOMAIN calls :
          /\ calls[i].state = "resolved"
          /\ calls[i].value = last.frame.identifier
          /\ calls[i].identifier = last.frame.identifier
          /\ calls[j].state = "pending"
          /\ calls[j].identifier # calls[i].identifier

\* C2: the pending table holds an identifier only while a subscribe for it
\* is in flight: it is in the table after subscribe, and no longer after a
\* confirm_subscription or reject_subscription frame for it, or after reset.
C2_TableHoldsOnlyInFlight ==
    /\ last.op = "subscribe" => last.identifier \in DOMAIN pendingSubscriptions
    /\ IsReceive(last, {"confirm_subscription", "reject_subscription"})
          => ToPropertyKey(last.frame.identifier) \notin DOMAIN pendingSubscriptions
    /\ last.op = "reset" => DOMAIN pendingSubscriptions = {}

\* C3: reset(err) rejects with err every subscribe call that had not
\* completed (identifiers may repeat) and leaves the table empty, so no
\* subscribe issued before a reset is unsettled after it.
C3_ResetSettlesEverySubscribe ==
    [][ last'.op = "reset"
        => /\ DOMAIN pendingSubscriptions' = {}
           /\ DOMAIN calls' = DOMAIN calls
           /\ \A i \in DOMAIN calls :
                IF calls[i].state = "pending"
                THEN calls'[i].state = "rejected" /\ calls'[i].error = last'.error
                ELSE calls'[i] = calls[i] ]_vars

\* C4: a disconnect frame rejects every pending subscribe with a
\* DisconnectedError carrying the frame's reason and clears the table before
\* the cable is signalled, and then sends exactly one signal: close(err)
\* when reconnect is false, disconnected(err) otherwise.
C4_DisconnectResetsThenSignalsOnce ==
    [][ IsReceive(last', {"disconnect"})
        => LET err == DisconnectedError(last'.frame.reason)
           IN /\ DOMAIN calls' = DOMAIN calls
              /\ \A i \in DOMAIN calls :
                   IF calls[i].state = "pending"
                   THEN calls'[i].state = "rejected" /\ calls'[i].error = err
                   ELSE calls'[i] = calls[i]
              /\ DOMAIN pendingSubscriptions' = {}
              /\ Len(cableLog') = 1
              /\ cableLog'[1].method =
                    (IF last'.frame.reconnect = JsFalse THEN "close"
                     ELSE "disconnected")
              /\ cableLog'[1].err = err
              /\ cableLog'[1].pending = {}
              /\ cableLog'[1].unsettled = {} ]_vars

KnownTypes ==
    {"ping", "welcome", "disconnect", "confirm_subscription",
     "reject_subscription"}

\* the frames C9 calls malformed or unexpected: a value that is no object,
\* null, an object of unknown type carrying no message, an object with
\* neither a type nor a message
Malformed(msg) ==
    \/ msg.kind # "object"
    \/ msg.type \notin KnownTypes /\ msg.message = Undefined

\* C9: for every malformed or unexpected frame, receive returns without
\* raising, returns no routed event, leaves the pending table and the
\* subscribes unchanged and sends no signal to the cable.
C9_MalformedFrameIsDropped ==
    [][ (last'.op = "receive" /\ Malformed(last'.frame))
        => /\ ~result'.threw
           /\ ~result'.routed
           /\ pendingSubscriptions' = pendingSubscriptions
           /\ calls' = calls
           /\ cableLog' = <<>> ]_vars

\* C10: a confirm_subscription or reject_subscription frame whose
\* identifier has no entry in the pending table is logged and dropped:
\* receive does not raise, settles no subscribe, leaves the table unchanged
\* and sends no signal to the cable.
C10_ReplyWithoutEntryIsDropped ==
    [][ (IsReceive(last', {"confirm_subscription", "reject_subscription"})
         /\ ToPropertyKey(last'.frame.identifier) \notin DOMAIN pendingSubscriptions)
        => /\ ~result'.threw
           /\ loggerLog' = << LoggerCall("error", "subscription not found") >>
           /\ calls' = calls
           /\ pendingSubscriptions' = pendingSubscriptions
           /\ cableLog' = <<>> ]_vars

\* ------------------------------------------------ the token-refresh workflow

\* the reasons a 'close' event carries
CloseReasons == {"token_expired", "server_restart", Undefined}

\* One run of the close listener's token_expired branch: the await it stands
\* at (pc), the promise tokenRefresher(transport) returned, the promise
\* cable.connect() returned, how often it invoked cable.connect(), whether
\* it logged a failure, and what the callback returned.
NewFlow ==
    [pc |-> "awaitRefresher", refresher |-> "pending", connect |-> "none",
     connects |-> 0, logged |-> FALSE, result |-> "none"]

\* a listener that forgets unbind()
ListenersKeptAfterExpiry(n) == n

\* how many listeners stay bound once a token_expired close has run them:
\* each unbinds itself
ListenersAfterExpiry(n) == 0

\* a listener that unbinds itself whatever the reason of the close
CloseUnbindsOnAnyReason(reason) ==
    /\ Len(closeLog) < MaxCloses
    /\ LET started == IF reason = "token_expired" THEN listeners ELSE 0
       IN /\ flows' = flows \o [i \in 1..started |-> NewFlow]
          /\ listeners' = ListenersAfterExpiry(listeners)
          /\ closeLog' = Append(closeLog, [reason |-> reason, invoked |-> started])
    /\ UNCHANGED hasRefresher
    /\ UNCHANGED <<protocolVars, adapterVars>>

\* cable.emit('close', {reason}): every bound listener runs; on
\* token_expired it unbinds itself and calls the callback, which invokes
\* tokenRefresher(transport) and waits for it
Close(reason) ==
    /\ Len(closeLog) < MaxCloses
    /\ LET started == IF reason = "token_expired" THEN listeners ELSE 0
       IN /\ flows' = flows \o [i \in 1..started |-> NewFlow]
          /\ listeners' = IF reason = "token_expired"
                          THEN ListenersAfterExpiry(listeners)
                          ELSE listeners
          /\ closeLog' = Append(closeLog, [reason |-> reason, invoked |-> started])
    /\ UNCHANGED hasRefresher
    /\ UNCHANGED <<protocolVars, adapterVars>>

\* the promise tokenRefresher returned is settled by the application
RefresherSettles(i, outcome) ==
    /\ flows[i].pc = "awaitRefresher"
    /\ flows' = [flows EXCEPT ![i] = [@ EXCEPT !.pc = "refresherSettled",
                                               !.refresher = outcome]]
    /\ UNCHANGED <<hasRefresher, listeners, closeLog>>
    /\ UNCHANGED <<protocolVars, adapterVars>>

\* a callback that connects whether the refresher resolved or not
FlowAfterRefresherAlwaysConnects(f) ==
    [f EXCEPT !.pc = "awaitConnect", !.connect = "pending", !.connects = @ + 1]

\* the callback after `await tokenRefresher(transport)`: on to
\* cable.connect(), or into the catch block, which logs and returns false
FlowAfterRefresher(f) ==
    IF f.refresher = "resolved"
    THEN [f EXCEPT !.pc = "awaitConnect", !.connect = "pending",
                   !.connects = @ + 1]
    ELSE [f EXCEPT !.pc = "returned", !.logged = TRUE, !.result = "false"]

AfterRefresher(i) ==
    /\ flows[i].pc = "refresherSettled"
    /\ flows' = [flows EXCEPT ![i] = FlowAfterRefresher(@)]
    /\ UNCHANGED <<hasRefresher, listeners, closeLog>>
    /\ UNCHANGED <<protocolVars, adapterVars>>

\* the promise cable.connect() returned is settled by the cable
ConnectSettles(i, outcome) ==
    /\ flows[i].pc = "awaitConnect"
    /\ flows' = [flows EXCEPT ![i] = [@ EXCEPT !.pc = "connectSettled",
                                               !.connect = outcome]]
    /\ UNCHANGED <<hasRefresher, listeners, closeLog>>
    /\ UNCHANGED <<protocolVars, adapterVars>>

\* a callback whose try block ends before cable.connect(): its rejection
\* leaves the callback uncaught and unlogged
FlowAfterConnectUncaught(f) ==
    IF f.connect = "resolved"
    THEN [f EXCEPT !.pc = "returned", !.result = "true"]
    ELSE [f EXCEPT !.pc = "returned", !.result = "threw"]

\* the callback after `await cable.connect()`: return true, or the catch
\* block, which logs and returns false
FlowAfterConnect(f) ==
    IF f.connect = "resolved"
    THEN [f EXCEPT !.pc = "returned", !.result = "true"]
    ELSE [f EXCEPT !.pc = "returned", !.logged = TRUE, !.result = "false"]

AfterConnect(i) ==
    /\ flows[i].pc = "connectSettled"
    /\ flows' = [flows EXCEPT ![i] = FlowAfterConnect(@)]
    /\ UNCHANGED <<hasRefresher, listeners, closeLog>>
    /\ UNCHANGED <<protocolVars, adapterVars>>

\* a listener that watches again whatever the callback returned
ListenersBoundAfterAnyResult(res) == 1

\* a listener that never watches again
ListenersNeverBoundAfter(res) == 0

\* how many listeners the listener binds after `await callback()`:
\* watchForExpiredToken again when the callback returned true
ListenersBoundAfter(res) == IF res = "true" THEN 1 ELSE 0

AfterCallback(i) ==
    /\ flows[i].pc = "returned"
    /\ flows' = [flows EXCEPT ![i] = [@ EXCEPT !.pc = "done"]]
    /\ listeners' = listeners + ListenersBoundAfter(flows[i].result)
    /\ UNCHANGED <<hasRefresher, closeLog>>
    /\ UNCHANGED <<protocolVars, adapterVars>>

\* createCable has returned: with a tokenRefresher the close listener is
\* bound once, without one it is never bound
InitRefresh ==
    /\ hasRefresher \in BOOLEAN
    /\ listeners = IF hasRefresher THEN 1 ELSE 0
    /\ flows = <<>>
    /\ closeLog = <<>>

InitCable == InitProtocol /\ InitRefresh /\ InitAdapterIdle

NextRefresh ==
    \/ \E r \in CloseReasons : Close(r)
    \/ \E i \in DOMAIN flows, o \in {"resolved", "rejected"} : RefresherSettles(i, o)
    \/ \E i \in DOMAIN flows : AfterRefresher(i)
    \/ \E i \in DOMAIN flows, o \in {"resolved", "rejected"} : ConnectSettles(i, o)
    \/ \E i \in DOMAIN flows : AfterConnect(i)
    \/ \E i \in DOMAIN flows : AfterCallback(i)

SpecRefresh == InitCable /\ [][NextRefresh]_vars

\* ------------------------------------------ claims on the refresh workflow

\* a refresh is pending: the refresher call, or the connect() that follows
\* it, has not completed
RefreshPending(f) ==
    \/ f.refresher = "pending"
    \/ f.refresher = "resolved" /\ f.connect \in {"none", "pending"}

\* a refresh has failed: the refresher rejected, or the connect() that
\* followed it rejected
RefreshFailed(f) == f.refresher = "rejected" \/ f.connect = "rejected"

\* a refresh has succeeded: the refresher and the connect() that followed
\* it both resolved
RefreshSucceeded(f) == f.refresher = "resolved" /\ f.connect = "resolved"

\* the step is a 'close' event with reason token_expired
ExpiryStep ==
    /\ Len(closeLog') = Len(closeLog) + 1
    /\ closeLog'[Len(closeLog')].reason = "token_expired"

\* how many times the step invoked the tokenRefresher: each run of the
\* listener's token_expired branch invokes it once, when it starts
RefresherInvocations == Len(flows') - Len(flows)

AtMostOneRefreshInFlight ==
    Cardinality({i \in DOMAIN flows : flows[i].pc # "done"}) <= 1

\* C5, as claimed: with a tokenRefresher, a token_expired close that arrives
\* while no refresh is pending invokes the tokenRefresher exactly once, one
\* that arrives while a refresh is pending does not invoke it, and at most
\* one refresh is in flight at any time.
C5_AsClaimed ==
    /\ [][ (hasRefresher /\ ExpiryStep)
           => RefresherInvocations =
                 (IF \E i \in DOMAIN flows : RefreshPending(flows[i])
                  THEN 0 ELSE 1) ]_vars
    /\ []AtMostOneRefreshInFlight

\* the workflow is armed: no refresh has been started, or every refresh
\* started so far has succeeded and its listener has run to its end (the
\* continuations after connect() resolved have run)
Armed ==
    /\ hasRefresher
    /\ \A i \in DOMAIN flows : RefreshSucceeded(flows[i]) /\ flows[i].pc = "done"

\* C5, amended: with a tokenRefresher, a token_expired close invokes the
\* tokenRefresher exactly once when it arrives while the workflow is armed
\* (no refresh started yet, or every earlier refresh succeeded and its
\* listener ran to its end), and does not invoke it otherwise: while a
\* refresh is pending, before the listener of a succeeded refresh has run to
\* its end, or after a refresh failed; at most one refresh is in flight at
\* any time.
C5_ExpiryInvokesRefresherOnlyWhenArmed ==
    /\ [][ (hasRefresher /\ ExpiryStep)
           => RefresherInvocations = (IF Armed THEN 1 ELSE 0) ]_vars
    /\ []AtMostOneRefreshInFlight

\* C5's case: a token_expired close invoked the refresher, and another one,
\* arriving while that refresh was pending, did not
C5_Witness ==
    /\ hasRefresher
    /\ Len(closeLog) >= 2
    /\ closeLog[1].reason = "token_expired" /\ closeLog[1].invoked = 1
    /\ closeLog[2].reason = "token_expired" /\ closeLog[2].invoked = 0
    /\ Len(flows) = 1
    /\ RefreshPending(flows[1])

\* C6, as claimed: once a token refresh has failed and the failure has
\* completed, the next token_expired close invokes the tokenRefresher again.
C6_AsClaimed ==
    [][ (/\ hasRefresher
         /\ ExpiryStep
         /\ flows # <<>>
         /\ RefreshFailed(flows[Len(flows)])
         /\ \A i \in DOMAIN flows : flows[i].pc = "done")
        => RefresherInvocations = 1 ]_vars

\* C6, amended: once a token refresh has failed (the tokenRefresher
\* rejected, or the connect() that followed it rejected), the workflow does
\* not re-arm: the close listener is never bound again and no later close,
\* whatever its reason, invokes the tokenRefresher.
C6_FailedRefreshNeverRearms ==
    [][ (\E i \in DOMAIN flows : RefreshFailed(flows[i]))
        => /\ RefresherInvocations = 0
           /\ listeners' = 0 ]_vars

\* C6's case: a refresh failed and ran to its end, and a token_expired
\* close that arrived afterwards invoked nothing
C6_Witness ==
    /\ Len(flows) = 1
    /\ RefreshFailed(flows[1])
    /\ flows[1].pc = "done"
    /\ Len(closeLog) = 2
    /\ closeLog[2].reason = "token_expired"
    /\ closeLog[2].invoked = 0

\* C7: when the tokenRefresher of a refresh resolves, cable.connect() is
\* invoked exactly once for that refresh, after the tokenRefresher has
\* completed; it is not invoked for a refresh whose tokenRefresher is
\* pending or rejected.
C7_ConnectOnceAfterRefresherResolved ==
    \A i \in DOMAIN flows :
        LET f == flows[i]
        IN /\ f.connects =
                (IF f.refresher = "resolved" /\ f.pc # "refresherSettled"
                 THEN 1 ELSE 0)
           /\ (f.connect # "none") = (f.connects = 1)

\* C7's case: a refresher resolved and connect() was invoked for it
C7_Witness ==
    \E i \in DOMAIN flows :
        /\ flows[i].refresher = "resolved"
        /\ flows[i].connect = "pending"
        /\ flows[i].connects = 1

\* C8, as claimed: once a refresh has succeeded (the tokenRefresher and the
\* connect() that followed it resolved), every later token_expired close
\* invokes the tokenRefresher once more.
C8_AsClaimed ==
    [][ (/\ hasRefresher
         /\ ExpiryStep
         /\ flows # <<>>
         /\ \A i \in DOMAIN flows : RefreshSucceeded(flows[i]))
        => RefresherInvocations = 1 ]_vars

\* C8, amended: once a refresh has succeeded and its listener has run to
\* its end (the continuations after connect() resolved have run and bound
\* the close listener again), the next token_expired close invokes the
\* tokenRefresher once more and starts a new refresh, so k expiries that
\* each arrive after the one before ran to its end make k invocations.
C8_RearmedAfterSuccessRanToEnd ==
    [][ (/\ hasRefresher
         /\ ExpiryStep
         /\ flows # <<>>
         /\ \A i \in DOMAIN flows :
               RefreshSucceeded(flows[i]) /\ flows[i].pc = "done")
        => /\ RefresherInvocations = 1
           /\ Len(flows') = Len(flows) + 1
           /\ RefreshPending(flows'[Len(flows')]) ]_vars

\* C8's case: a refresh succeeded and ran to its end, and the next
\* token_expired close invoked the refresher a second time
C8_Witness ==
    /\ Len(flows) = 2
    /\ RefreshSucceeded(flows[1])
    /\ flows[1].pc = "done"
    /\ Len(closeLog) = 2
    /\ closeLog[2].reason = "token_expired"
    /\ closeLog[2].invoked = 1

\* --------------------------------------------- more claims on the protocol

\* C11: receive returns the routed event {identifier, message} for every
\* frame that has no type, or a type it does not dispatch on, and a present
\* message field, whatever the message's value; it leaves the pending table
\* and the subscribes unchanged and sends no signal to the cable.
C11_FrameWithMessageIsRouted ==
    [][ (/\ last'.op = "receive"
         /\ last'.frame.kind = "object"
         /\ last'.frame.type \notin KnownTypes
         /\ last'.frame.message # Undefined)
        => /\ result' = ReturnedEvent(last'.frame.identifier, last'.frame.message)
           /\ pendingSubscriptions' = pendingSubscriptions
           /\ calls' = calls
           /\ cableLog' = <<>> ]_vars

\* -------------------------------------------- the identifier subscribe derives

\* (channel, params) pairs that differ in name, in members, in the order of
\* their members, and one whose params carry a channel member of their own
IdentifierChannels == {"a", "b"}
IdentifierParams ==
    {NoParams,
     [given |-> TRUE, members |-> <<>>],
     [given |-> TRUE, members |-> << <<"id", "1">> >>],
     [given |-> TRUE, members |-> << <<"id", "1">>, <<"room", "2">> >>],
     [given |-> TRUE, members |-> << <<"room", "2">>, <<"id", "1">> >>],
     [given |-> TRUE, members |-> << <<"channel", "b">> >>]}

NextIdentifier ==
    \E c \in IdentifierChannels, p \in IdentifierParams : Subscribe(c, p)

SpecIdentifier == Init /\ [][NextIdentifier]_vars

\* the members of a params object, whatever their order (none when absent)
MemberSet(params) == {params.members[i] : i \in DOMAIN params.members}

\* two subscribe calls were given the same channel name and the same params
StructurallyIdentical(c1, c2) ==
    /\ c1.channel = c2.channel
    /\ MemberSet(c1.params) = MemberSet(c2.params)

\* C12: two subscribe calls with structurally identical (name, params)
\* derive the same identifier, and two with structurally different
\* (name, params) never derive the same identifier.
C12_IdentifierFollowsStructure ==
    \A i, j \in DOMAIN calls :
        StructurallyIdentical(calls[i], calls[j])
            <=> calls[i].identifier = calls[j].identifier

\* ------------------------------------- more claims on the refresh workflow

\* C13: a token-refresh failure never propagates: when the tokenRefresher
\* rejects, cable.connect() is not invoked for that refresh, and whether the
\* tokenRefresher or the connect() after it rejects, the callback catches
\* and logs the error and completes with the result false instead of
\* raising out of the close listener.
C13_RefreshFailureIsCaughtAndLogged ==
    \A i \in DOMAIN flows :
        LET f == flows[i]
        IN /\ f.refresher = "rejected" => (f.connects = 0 /\ f.connect = "none")
           /\ f.result \in {"none", "true", "false"}
           /\ (RefreshFailed(f) /\ f.pc \in {"returned", "done"})
                 => (f.logged /\ f.result = "false")
           /\ f.logged => RefreshFailed(f)

\* C13's case: a connect() rejected after its refresher resolved, and the
\* callback logged it and returned false
C13_Witness ==
    \E i \in DOMAIN flows :
        /\ flows[i].refresher = "resolved"
        /\ flows[i].connect = "rejected"
        /\ flows[i].pc = "done"
        /\ flows[i].logged
        /\ flows[i].result = "false"

\* ------------------------------------------------------------ createCable

\* an option the caller's object does not have
Absent == "<absent>"

\* values that are objects or functions, by what made them
GivenTransport == "<transport>"
GivenProtocol == "<protocol>"
GivenEncoder == "<encoder>"
GivenMonitor == "<monitor>"
GivenRefresher == "<tokenRefresher>"
ObjectValues == {GivenTransport, GivenProtocol, GivenEncoder, GivenMonitor,
                 "<ActionCableProtocol>", "<JSONEncoder>",
                 "<WebSocketTransport>", "<Monitor>"}

\* typeof, of the values the model uses
TypeOf(v) ==
    IF v = Undefined THEN "undefined"
    ELSE IF v \in {JsTrue, JsFalse} THEN "boolean"
    ELSE IF v = GivenRefresher THEN "function"
    ELSE IF v \in ObjectValues THEN "object"
    ELSE "string"

\* obj[k] of an object without inherited members in play
Member(members, k) ==
    IF HasKey(members, k)
    THEN LET i == CHOOSE j \in 1..Len(members) : members[j][1] = k
         IN members[i][2]
    ELSE Undefined

\* an argument of createCable: nothing, a string or an options object
NoArg == [type |-> "undefined", text |-> Undefined, members |-> <<>>]
StringArg(s) == [type |-> "string", text |-> s, members |-> <<>>]
ObjectArg(members) == [type |-> "object", text |-> "<object>", members |-> members]

Field(k, v) == IF v = Absent THEN <<>> ELSE << <<k, v>> >>

OptionsWith(t, p, e, m, r) ==
    Field("transport", t) \o Field("protocol", p) \o Field("encoder", e)
        \o Field("monitor", m) \o Field("tokenRefresher", r)

ProtocolChoices ==
    {Absent, Undefined, JsFalse, "actioncable-v1-json", "actioncable-v1-msgpack",
     "actioncable-v1-protobuf", "actioncable-v1-whatever", GivenProtocol}

OptionChoices ==
    {OptionsWith(t, p, e, m, r) :
        t \in {Absent, GivenTransport}, p \in ProtocolChoices,
        e \in {Absent, GivenEncoder}, m \in {Absent, JsFalse, GivenMonitor},
        r \in {Absent, GivenRefresher}}

\* createCable(), createCable(url), createCable(url, opts), createCable(opts)
\* and createCable(undefined, opts)
CreateCalls ==
    {<<NoArg, NoArg>>, <<StringArg("ws://example"), NoArg>>}
        \cup {<<StringArg("ws://example"), ObjectArg(o)>> : o \in OptionChoices}
        \cup {<<ObjectArg(o), NoArg>> : o \in OptionChoices}
        \cup {<<NoArg, ObjectArg(o)>> : o \in OptionChoices}

DEFAULT_OPTIONS ==
    << <<"protocol", "actioncable-v1-json">>, <<"pingInterval", "3000">>,
       <<"maxReconnectAttempts", "Infinity">>, <<"maxMissingPings", "2">>,
       <<"logLevel", "warn">>, <<"lazy", JsTrue>> >>

\* a createCable that reads the caller's options as they are
WithoutDefaults(opts) == opts

\* Object.assign({}, DEFAULT_OPTIONS, opts)
WithDefaults(opts) == ObjectAssign(ObjectAssign(<<>>, DEFAULT_OPTIONS), opts)

ConfigurationError(text) == [name |-> "Error", reason |-> text]

\* how a createCable call ends
CreationThrew(err) ==
    [threw |-> TRUE, error |-> err, cable |-> FALSE, protocol |-> Undefined,
     encoder |-> Undefined, transport |-> Undefined, monitor |-> Undefined,
     watched |-> FALSE, watcher |-> FALSE]
CreationReturned(protocol, encoder, transport, monitor, tokenRefresher) ==
    [threw |-> FALSE, error |-> NoError, cable |-> TRUE, protocol |-> protocol,
     encoder |-> encoder, transport |-> transport, monitor |-> monitor,
     watched |-> Truthy(monitor), watcher |-> Truthy(tokenRefresher)]

Or(a, b) == IF Truthy(a) THEN a ELSE b

SupportedProtocols ==
    {"actioncable-v1-json", "actioncable-v1-msgpack", "actioncable-v1-protobuf"}

createCable(urlArg, optsArg) ==
    LET swap == urlArg.type = "object" /\ optsArg.type = "undefined"
        url == IF swap THEN NoArg ELSE urlArg
        given == IF swap THEN urlArg ELSE optsArg
        opts0 == IF given.type = "undefined" THEN <<>> ELSE given.members
        hasUrl == url.type = "object" \/ (url.type = "string" /\ url.text # "")
        opts == WithDefaults(opts0)
        protocol == Member(opts, "protocol")
        encoder == Member(opts, "encoder")
        monitor == Member(opts, "monitor")
        transport == Or(Member(opts, "transport"), "<WebSocketTransport>")
        tokenRefresher == Member(opts, "tokenRefresher")
        built == IF protocol \in SupportedProtocols
                 THEN "<ActionCableProtocol>" ELSE protocol
        encoding == IF protocol = "actioncable-v1-json"
                    THEN Or(encoder, "<JSONEncoder>") ELSE encoder
        watching == IF monitor # JsFalse THEN Or(monitor, "<Monitor>") ELSE monitor
    IN IF ~hasUrl /\ ~Truthy(Member(opts0, "transport"))
       THEN CreationThrew(ConfigurationError("URL or transport must be specified"))
       ELSE IF protocol = "actioncable-v1-msgpack" /\ ~Truthy(encoder)
       THEN CreationThrew(ConfigurationError("Msgpack encoder must be specified explicitly"))
       ELSE IF protocol = "actioncable-v1-protobuf" /\ ~Truthy(encoder)
       THEN CreationThrew(ConfigurationError("Protobuf encoder must be specified explicitly"))
       ELSE IF protocol \notin SupportedProtocols /\ TypeOf(protocol) = "string"
       THEN CreationThrew(ConfigurationError("Protocol is not supported yet: " \o protocol))
       ELSE IF ~Truthy(built)
       THEN CreationThrew(ConfigurationError("Protocol must be specified"))
       ELSE CreationReturned(built, encoding, transport, watching, tokenRefresher)

CreateCable(urlArg, optsArg) ==
    /\ ~creation.called
    /\ LET outcome == createCable(urlArg, optsArg)
       IN /\ creation' = [called |-> TRUE, url |-> urlArg, opts |-> optsArg,
                          outcome |-> outcome]
          /\ hasRefresher' = outcome.watcher
          /\ listeners' = IF outcome.watcher THEN 1 ELSE 0
    /\ UNCHANGED <<protocolVars, flows, closeLog, cableChannel, trace>>

NextCreate == \E call \in CreateCalls : CreateCable(call[1], call[2])

SpecCreate == Init /\ [][NextCreate]_vars

\* ------------------------------------------------------- claims on createCable

\* what the caller of the recorded createCable call gave
CreationSwapped == creation.url.type = "object" /\ creation.opts.type = "undefined"
CreationOptions ==
    IF CreationSwapped THEN creation.url.members ELSE creation.opts.members
CreationUrlGiven == ~CreationSwapped /\ creation.url.type # "undefined"
CreationProtocol == Member(CreationOptions, "protocol")

NoUrlNoTransport == ~CreationUrlGiven /\ ~HasKey(CreationOptions, "transport")
UnknownProtocol ==
    TypeOf(CreationProtocol) = "string" /\ CreationProtocol \notin SupportedProtocols
MissingEncoder ==
    /\ CreationProtocol \in {"actioncable-v1-msgpack", "actioncable-v1-protobuf"}
    /\ ~HasKey(CreationOptions, "encoder")
NoProtocolGiven == CreationProtocol = Undefined
FalsyProtocolGiven ==
    HasKey(CreationOptions, "protocol") /\ CreationProtocol \in {Undefined, JsFalse}

\* a failed createCable built nothing; a returning one built the cable
CreationAllOrNothing ==
    /\ creation.outcome.threw =>
          /\ creation.outcome.error.name = "Error"
          /\ ~creation.outcome.cable
          /\ ~creation.outcome.watched
          /\ ~creation.outcome.watcher
          /\ listeners = 0
    /\ ~creation.outcome.threw => creation.outcome.cable

Hooks == {"initialized", "connected", "received", "rejected", "disconnected"}

\* a mixin: any subset of the hooks as functions, or a connected member
\* that is not a function
MixinChoices ==
    UNION {[S -> {"function"}] : S \in SUBSET Hooks}
        \cup {[h \in {"connected"} |-> "string"]}

\* subscriptions.create('ChatChannel', ...) and
\* subscriptions.create({channel: 'ChatChannel', id: '1'}, ...)
ChannelArgs ==
    {StringArg("ChatChannel"),
     ObjectArg(<< <<"channel", "ChatChannel">>, <<"id", "1">> >>)}

\* the events a channel emits: {name, payload, error}
ChannelEvent(name, payload, err) == [name |-> name, payload |-> payload, error |-> err]
ChannelEvents ==
    {ChannelEvent("connect", Undefined, NoError),
     ChannelEvent("disconnect", Undefined, NoError),
     ChannelEvent("message", "hello", NoError),
     ChannelEvent("close", Undefined, NoError),
     ChannelEvent("close", Undefined, SubscriptionRejectedError),
     ChannelEvent("close", Undefined, DisconnectedError("transport_closed"))}

\* entries of the trace
EventEntry(ev) ==
    [kind |-> "event", name |-> ev.name, payload |-> ev.payload,
     error |-> ev.error, allowReconnect |-> Undefined]
HookCall(callback, payload, allowReconnect) ==
    [kind |-> "hook", name |-> callback, payload |-> payload,
     error |-> NoError, allowReconnect |-> allowReconnect]
SubscribeCall ==
    [kind |-> "call", name |-> "cable.subscribe", payload |-> Undefined,
     error |-> NoError, allowReconnect |-> Undefined]

\* delete obj[k]
DeleteMember(members, k) == SelectSeq(members, LAMBDA m : m[1] # k)

\* this[`_ac_${key}`] = value, for every key of the mixin
AcKey(key) == "_ac_" \o key
ChannelFields(mixin) ==
    [k \in {AcKey(h) : h \in DOMAIN mixin} |->
        mixin[CHOOSE h \in DOMAIN mixin : AcKey(h) = k]]

ActionCableChannel(channelName, params, mixin) ==
    [created |-> TRUE, channelName |-> channelName, params |-> params,
     fields |-> ChannelFields(mixin), subscribe |-> "none", caught |-> FALSE,
     disconnects |-> 0]

\* the hook calls notify makes: one if the field is a function, else none
Notify(ch, callback, payload, allowReconnect) ==
    IF callback \in DOMAIN ch.fields /\ ch.fields[callback] = "function"
    THEN <<HookCall(callback, payload, allowReconnect)>>
    ELSE <<>>

\* a close listener that reports every close as a disconnect
OnCloseIgnoringError(ch, err) == Notify(ch, "_ac_disconnected", Undefined, JsFalse)

\* the four listeners the constructor binds
OnConnect(ch) == Notify(ch, "_ac_connected", Undefined, Undefined)
OnDisconnect(ch) == Notify(ch, "_ac_disconnected", Undefined, JsTrue)
OnMessage(ch, val) == Notify(ch, "_ac_received", val, Undefined)
OnClose(ch, err) ==
    IF err # NoError /\ err.name = "SubscriptionRejectedError"
    THEN Notify(ch, "_ac_rejected", Undefined, Undefined)
    ELSE Notify(ch, "_ac_disconnected", Undefined, JsFalse)

Listener(ch, ev) ==
    CASE ev.name = "connect" -> OnConnect(ch)
      [] ev.name = "disconnect" -> OnDisconnect(ch)
      [] ev.name = "message" -> OnMessage(ch, ev.payload)
      [] ev.name = "close" -> OnClose(ch, ev.error)

\* a create that subscribes before it announces the channel
CreateTraceSubscribeFirst(ch) ==
    <<SubscribeCall>> \o Notify(ch, "_ac_initialized", Undefined, Undefined)

\* cableChannel.notify('_ac_initialized'), then this.cable.subscribe(cableChannel)
CreateTrace(ch) ==
    Notify(ch, "_ac_initialized", Undefined, Undefined) \o <<SubscribeCall>>

Create(channelArg, mixin) ==
    /\ ~cableChannel.created
    /\ LET isObject == channelArg.type = "object"
           channelName == IF isObject THEN Member(channelArg.members, "channel")
                          ELSE channelArg.text
           params == IF isObject THEN DeleteMember(channelArg.members, "channel")
                     ELSE <<>>
           ch == ActionCableChannel(channelName, params, mixin)
       IN /\ cableChannel' = [ch EXCEPT !.subscribe = "pending"]
          /\ trace' = CreateTrace(ch)
    /\ UNCHANGED <<protocolVars, refreshVars, creation>>

EventCount == Cardinality({i \in DOMAIN trace : trace[i].kind = "event"})

\* the channel emits an event; its listener runs
Emit(ev) ==
    /\ cableChannel.created
    /\ EventCount < MaxEvents
    /\ trace' = trace \o <<EventEntry(ev)>> \o Listener(cableChannel, ev)
    /\ UNCHANGED <<protocolVars, refreshVars, creation, cableChannel>>

\* the promise of cable.subscribe settles; .catch(() => {}) takes a rejection
SubscribeSettles(outcome) ==
    /\ cableChannel.created
    /\ cableChannel.subscribe = "pending"
    /\ cableChannel' = [cableChannel EXCEPT !.subscribe = outcome,
                                            !.caught = (outcome = "rejected")]
    /\ UNCHANGED <<protocolVars, refreshVars, creation, trace>>

\* channel.unsubscribe(): this.disconnect()
ChannelUnsubscribe ==
    /\ cableChannel.created
    /\ cableChannel.disconnects = 0
    /\ cableChannel' = [cableChannel EXCEPT !.disconnects = @ + 1]
    /\ UNCHANGED <<protocolVars, refreshVars, creation, trace>>

NextConsumer ==
    \/ \E c \in ChannelArgs, m \in MixinChoices : Create(c, m)
    \/ \E ev \in ChannelEvents : Emit(ev)
    \/ \E o \in {"resolved", "rejected"} : SubscribeSettles(o)
    \/ ChannelUnsubscribe

SpecConsumer == Init /\ [][NextConsumer]_vars

\* ---------------------------------------------- claims on the consumer sugar

Supplied(hook) ==
    /\ AcKey(hook) \in DOMAIN cableChannel.fields
    /\ cableChannel.fields[AcKey(hook)] = "function"

\* the hook the documentation gives an event, and its arguments
DocumentedHook(ev) ==
    CASE ev.name = "connect" -> "connected"
      [] ev.name = "message" -> "received"
      [] ev.name = "disconnect" -> "disconnected"
      [] ev.name = "close" ->
            IF ev.error = SubscriptionRejectedError THEN "rejected" ELSE "disconnected"
DocumentedAllowReconnect(ev) ==
    CASE ev.name = "disconnect" -> JsTrue
      [] ev.name = "close" /\ ev.error # SubscriptionRejectedError -> JsFalse
      [] OTHER -> Undefined

\* C15: for a channel made by ActionCableSubscriptions.create with any
\* subset of the hooks, each channel event invokes exactly its hook and
\* nothing else: connect -> connected, message(payload) -> received(payload),
\* disconnect -> disconnected({allowReconnect: true}), close with a
\* SubscriptionRejectedError -> rejected, any other close ->
\* disconnected({allowReconnect: false}); an event whose hook was not
\* supplied invokes nothing.
C15_EventInvokesExactlyItsHook ==
    [][(cableChannel.created /\ Len(trace') > Len(trace)) =>
          LET ev == trace'[Len(trace) + 1]
              invoked == SubSeq(trace', Len(trace) + 2, Len(trace'))
              hook == DocumentedHook(ev)
          IN /\ ev.kind = "event"
             /\ invoked = IF Supplied(hook)
                          THEN << [kind |-> "hook", name |-> "_ac_" \o hook,
                                   payload |-> ev.payload, error |-> NoError,
                                   allowReconnect |-> DocumentedAllowReconnect(ev)] >>
                          ELSE <<>>
             /\ cableChannel' = cableChannel]_vars

\* C15's case: a channel with both rejected and disconnected hooks was closed
\* with a SubscriptionRejectedError and rejected ran
C15_Witness ==
    /\ cableChannel.created
    /\ Supplied("rejected")
    /\ Supplied("disconnected")
    /\ \E i \in DOMAIN trace :
          /\ trace[i].kind = "event"
          /\ trace[i].name = "close"
          /\ trace[i].error = SubscriptionRejectedError
          /\ i + 1 \in DOMAIN trace
          /\ trace[i + 1].kind = "hook"
          /\ trace[i + 1].name = "_ac_rejected"

\* C16: create invokes the initialized hook exactly once (when supplied),
\* before cable.subscribe is called for the channel, so initialized precedes
\* every other hook invocation of the channel; a rejection of the
\* cable.subscribe promise is caught by create.
C16_InitializedFirstAndRejectionSwallowed ==
    cableChannel.created =>
        LET inits == {i \in DOMAIN trace :
                         trace[i].kind = "hook" /\ trace[i].name = "_ac_initialized"}
            subs == {i \in DOMAIN trace : trace[i].kind = "call"}
        IN /\ Cardinality(inits) = IF Supplied("initialized") THEN 1 ELSE 0
           /\ Cardinality(subs) = 1
           /\ \A i \in inits : \A j \in subs : i < j
           /\ \A i \in inits : \A j \in DOMAIN trace :
                 (trace[j].kind = "hook" /\ j # i) => i < j
           /\ \A j \in DOMAIN trace : \A s \in subs :
                 trace[j].kind = "event" => s < j
           /\ cableChannel.subscribe = "rejected" => cableChannel.caught

\* C16's case: initialized was supplied, the subscribe was rejected and
\* the rejected hook ran after initialized
C16_Witness ==
    /\ cableChannel.created
    /\ Supplied("initialized")
    /\ cableChannel.subscribe = "rejected"
    /\ cableChannel.caught
    /\ trace[1].name = "_ac_initialized"
    /\ \E j \in DOMAIN trace : trace[j].kind = "hook" /\ trace[j].name = "_ac_rejected"

\* ------------------------------------------- more claims on the protocol

\* C17: receive of a ping frame calls cable.keepalive exactly once with the
\* frame's message, receive of a welcome frame calls cable.connected exactly
\* once, and nothing else happens: the pending table and the subscribes are
\* unchanged, nothing is logged, no event is routed and no disconnected or
\* close signal is sent.
C17_PingAndWelcomeOnlySignal ==
    [][ IsReceive(last', {"ping", "welcome"})
        => /\ pendingSubscriptions' = pendingSubscriptions
           /\ calls' = calls
           /\ loggerLog' = <<>>
           /\ ~result'.threw
           /\ ~result'.routed
           /\ Len(cableLog') = 1
           /\ cableLog'[1].cmd = NoCommand
           /\ IF last'.frame.type = "ping"
              THEN /\ cableLog'[1].method = "keepalive"
                   /\ cableLog'[1].arg = last'.frame.message
              ELSE /\ cableLog'[1].method = "connected"
                   /\ cableLog'[1].arg = Undefined ]_vars

\* C17's case: a ping arrived while a subscribe was pending, and the cable
\* got keepalive with the server's timestamp
C17_Witness ==
    /\ IsReceive(last, {"ping"})
    /\ last.frame.message = "1604"
    /\ cableLog = << CableCall("keepalive", "1604", NoError, NoCommand,
                               pendingSubscriptions, calls) >>
    /\ \E i \in DOMAIN calls : calls[i].state = "pending"

\* the subscribe the pending table holds for the identifier of the
\* operation just done, when it is still in flight
InFlightFor(op) ==
    {i \in DOMAIN calls :
        /\ op.identifier \in DOMAIN pendingSubscriptions
        /\ pendingSubscriptions[op.identifier] = i
        /\ calls[i].state = "pending"}

\* C18: unsubscribe(identifier) leaves the pending table and the subscribes
\* unchanged: the subscribe in flight for the identifier stays pending, and a
\* confirm_subscription, reject_subscription or reset that comes next still
\* resolves or rejects it.
C18_UnsubscribeLeavesPendingSubscribe ==
    [][ /\ last'.op = "unsubscribe"
            => /\ pendingSubscriptions' = pendingSubscriptions
               /\ calls' = calls
        /\ last.op = "unsubscribe"
            => \A i \in InFlightFor(last) :
                  /\ (IsReceive(last', {"confirm_subscription"})
                      /\ last'.frame.identifier = last.identifier)
                        => (calls'[i].state = "resolved"
                            /\ calls'[i].value = last.identifier)
                  /\ (IsReceive(last', {"reject_subscription"})
                      /\ last'.frame.identifier = last.identifier)
                        => (calls'[i].state = "rejected"
                            /\ calls'[i].error = SubscriptionRejectedError)
                  /\ last'.op = "reset"
                        => (calls'[i].state = "rejected"
                            /\ calls'[i].error = last'.error) ]_vars

\* C18's case: an unsubscribe for an identifier whose subscribe is still in
\* flight has just been done, and that subscribe is still pending
C18_Witness ==
    /\ last.op = "unsubscribe"
    /\ InFlightFor(last) # {}
    /\ cableLog[1].cmd.command = "unsubscribe"

\* a close event with another reason than token_expired was just emitted
OtherCloseStep ==
    /\ Len(closeLog') = Len(closeLog) + 1
    /\ closeLog'[Len(closeLog')].reason # "token_expired"

OnlyOtherClosesSoFar ==
    \A i \in DOMAIN closeLog : closeLog[i].reason # "token_expired"

\* C19: a close event whose reason is not 'token_expired' never invokes the
\* tokenRefresher and leaves the workflow as it was, so with a
\* tokenRefresher, after any number of such closes the next token_expired
\* close still invokes the tokenRefresher exactly once.
C19_OtherClosesLeaveWorkflowArmed ==
    [][ /\ OtherCloseStep
            => /\ RefresherInvocations = 0
               /\ listeners' = listeners
               /\ flows' = flows
        /\ (hasRefresher /\ ExpiryStep /\ OnlyOtherClosesSoFar)
            => RefresherInvocations = 1 ]_vars

\* C19's case: two closes with other reasons, then a token_expired close
\* that invoked the tokenRefresher once
C19_Witness ==
    /\ hasRefresher
    /\ Len(closeLog) = 3
    /\ closeLog[1].reason = "server_restart"
    /\ closeLog[2].reason = Undefined
    /\ closeLog[3] = [reason |-> "token_expired", invoked |-> 1]
    /\ Len(flows) = 1

\* the data the documentation gives perform(id, 'speak', payload)
DocumentedData(payload) ==
    CASE ~payload.given -> "{\"action\":\"speak\"}"
      [] payload.given /\ ~HasKey(payload.members, "action")
            -> "{\"text\":\"hi\",\"action\":\"speak\"}"
      [] OTHER -> "{\"action\":\"speak\",\"text\":\"hi\"}"

\* C20: each protocol operation sends exactly one command of the documented
\* shape: subscribe sends {command: 'subscribe', identifier} without data,
\* unsubscribe sends {command: 'unsubscribe', identifier} without data,
\* perform sends {command: 'message', identifier, data} with data the
\* serialized payload whose action is the action argument (an absent payload
\* counts as empty, an action in the payload is overridden); receive and
\* reset send no command.
C20_OneCommandOfDocumentedShape ==
    [][ /\ last'.op \in {"subscribe", "unsubscribe", "perform"}
            => /\ Len(cableLog') = 1
               /\ cableLog'[1].method = "send"
               /\ cableLog'[1].cmd.identifier = last'.identifier
               /\ cableLog'[1].cmd.command =
                     (CASE last'.op = "subscribe" -> "subscribe"
                        [] last'.op = "unsubscribe" -> "unsubscribe"
                        [] last'.op = "perform" -> "message")
               /\ last'.op # "perform" => cableLog'[1].cmd.data = Undefined
               /\ last'.op = "subscribe" =>
                     /\ Len(calls') = Len(calls) + 1
                     /\ calls'[Len(calls')].identifier = last'.identifier
        /\ \A p \in PayloadChoices :
              (last'.op = "perform" /\ Perform(last'.identifier, "speak", p))
                 => cableLog'[1].cmd.data = DocumentedData(p)
        /\ last'.op \in {"receive", "reset"}
            => \A i \in DOMAIN cableLog' :
                  /\ cableLog'[i].method # "send"
                  /\ cableLog'[i].cmd = NoCommand ]_vars

\* C20's case: a perform whose payload already had an action sent one
\* message command with the action overridden
C20_Witness ==
    /\ last.op = "perform"
    /\ Len(cableLog) = 1
    /\ cableLog[1].cmd = [command |-> "message", identifier |-> last.identifier,
                          data |-> "{\"action\":\"speak\",\"text\":\"hi\"}"]

====
